---- MODULE Spec2Model ----
(***************************************************************************)
(* Synapse: the turn coordinator of src/App.tsx (processUserRequest,       *)
(* handleMicClick, the tab switch), the speech playback queue of           *)
(* src/hooks/useSpeechSynthesis.ts and the language-model calls of         *)
(* src/index.tsx, as one state machine.  Every await of processUserRequest *)
(* is a suspension point: the code between two awaits is one action.       *)
(* Text is a sequence of one-character strings.                            *)
(***************************************************************************)
EXTENDS Naturals, Sequences, FiniteSets, TLC

VARIABLES
    appState,             \* App.tsx:23  useState<AppState>
    emotion,              \* App.tsx:24  useState<Emotion>
    inputMode,            \* App.tsx:25  useState<InputMode>
    conversationHistory,  \* App.tsx:26  useState<ChatMessage[]>
    userProfile,          \* App.tsx:27  useState<UserProfile>
    abortControllerRef,   \* App.tsx:30  0 is null, else the session it holds
    sess,                 \* one record per call of processUserRequest
    nextSid,              \* number of calls of processUserRequest so far
    queue,                \* the utterance queue of window.speechSynthesis
    orphaned,             \* awaited utterances removed from the queue by cancel()
    hasSynth,             \* useSpeechSynthesis.ts:15  'speechSynthesis' in window
    isListening,          \* useSpeechRecognition  useState(false)
    idleHold,             \* TRUE from an interrupt to the next user-raised event
    capture,              \* the refs of useSpeechRecognition (part_003:37-39)
    playback,             \* the state of useSpeechSynthesis (useSpeechSynthesis.ts:10-11)
    persist               \* start-up and the stored profile (App.tsx:22, 46-67)

vars == <<appState, emotion, inputMode, conversationHistory, userProfile,
          abortControllerRef, sess, nextSid, queue, orphaned, hasSynth,
          isListening, idleHold, capture, playback, persist>>

----------------------------------------------------------------------------
(* Bounds *)

MaxSessions == 2
MaxChunks == 1

Sessions == 1..MaxSessions

----------------------------------------------------------------------------
(* Types (src/unnamed/part_001) *)

AppStates == {"IDLE", "LISTENING", "THINKING", "SPEAKING", "ERROR"}
Emotions == {"NEUTRAL", "JOYFUL", "CALM", "ANGRY", "SAD", "SURPRISED"}
InputModes == {"VOICE", "TEXT", "PROFILE"}

\* the emotions the classification returns in this model
ClassifyEmotions == {"SAD", "JOYFUL"}
\* the texts a user turn carries in this model
UserTexts == {<<"u">>}
\* the fragments the response stream delivers in this model
Fragments == {<<"a">>, <<"b", ".">>}
\* fact keys and values of the profile in this model
Keys == {"name"}
Values == {"Ann"}

EmptyProfile == [k \in {} |-> "Ann"]
FactMaps == {EmptyProfile} \cup {[k \in Keys |-> v] : v \in Values}

NoEmotion == "none"

UserMessage(text, s) ==
    [sender |-> "user", content |-> text, detectedEmotion |-> NoEmotion, sid |-> s]

AiMessagePlaceholder(e, s) ==
    [sender |-> "ai", content |-> <<>>, detectedEmotion |-> e, sid |-> s]

----------------------------------------------------------------------------
(* Text helpers *)

Terminators == {".", "!", "?"}
Whitespace == {" "}

\* /[.!?]/.test(textBuffer)
HasTerminator(buf) == \E i \in 1..Len(buf) : buf[i] \in Terminators

\* String.prototype.substring(n): n is clamped to the length
Substring(buf, n) == IF n >= Len(buf) THEN <<>> ELSE SubSeq(buf, n + 1, Len(buf))

\* the end of the maximal run of characters of class cls that starts at i
\* (i - 1 when buf[i] is not of the class)
RECURSIVE RunEnd(_, _, _)
RunEnd(buf, i, cls) ==
    IF i <= Len(buf) /\ buf[i] \in cls THEN RunEnd(buf, i + 1, cls) ELSE i - 1

Chars(buf) == {buf[i] : i \in 1..Len(buf)}

\* textBuffer.match(/[^.!?]+[.!?]+/g) from position i on: the matches in order
\* (the empty sequence stands for null)
RECURSIVE MatchFrom(_, _)
MatchFrom(buf, i) ==
    IF i > Len(buf) THEN <<>>
    ELSE IF buf[i] \in Terminators THEN MatchFrom(buf, i + 1)
    ELSE LET j == RunEnd(buf, i, Chars(buf) \ Terminators)
             k == RunEnd(buf, j + 1, Terminators)
         IN  IF j >= Len(buf) THEN <<>>
             ELSE <<SubSeq(buf, i, k)>> \o MatchFrom(buf, k + 1)

MatchSentences(buf) == MatchFrom(buf, 1)

\* sentences.join(' ')
RECURSIVE JoinSpace(_)
JoinSpace(ss) ==
    IF Len(ss) = 0 THEN <<>>
    ELSE IF Len(ss) = 1 THEN ss[1]
    ELSE ss[1] \o <<" ">> \o JoinSpace(Tail(ss))

\* String.prototype.trim()
RECURSIVE TrimLeft(_)
TrimLeft(buf) ==
    IF Len(buf) > 0 /\ buf[1] \in Whitespace THEN TrimLeft(Tail(buf)) ELSE buf

RECURSIVE TrimRight(_)
TrimRight(buf) ==
    IF Len(buf) > 0 /\ buf[Len(buf)] \in Whitespace
    THEN TrimRight(SubSeq(buf, 1, Len(buf) - 1)) ELSE buf

Trim(buf) == TrimRight(TrimLeft(buf))

RECURSIVE Concat(_)
Concat(ss) == IF Len(ss) = 0 THEN <<>> ELSE ss[1] \o Concat(Tail(ss))

----------------------------------------------------------------------------
(* Language Intelligence client (src/index.tsx) *)

\* what error.toString() of a transport failure contains, in this model
ApiErrors == {"429", "API key not valid", "other"}

MsgRateLimited == <<"R">>
MsgInvalidKey == <<"K">>
MsgGeneric == <<"G">>

\* handleApiError: the message of the Error it throws
HandleApiError(err) ==
    IF err = "429" \/ err = "RESOURCE_EXHAUSTED" THEN MsgRateLimited
    ELSE IF err = "API key not valid" THEN MsgInvalidKey
    ELSE MsgGeneric

\* the failures the calls of this model reject with
CallFailures == {"other"}

\* extractUserDetails: null (none |-> TRUE) or the parsed object
NoDetails == [none |-> TRUE, val |-> EmptyProfile]
Details(f) == [none |-> FALSE, val |-> f]

\* response.text of the extraction call: kind "sentinel" is the text '{}'
\* (after trim), "object" a text that parses to the object val ('{ }' parses
\* to the empty object), "other" a text that parses to an array, null or a
\* primitive
SentinelResponse == [kind |-> "sentinel", val |-> EmptyProfile]
ObjectResponse(f) == [kind |-> "object", val |-> f]
OtherResponse == [kind |-> "other", val |-> EmptyProfile]
ExtractResponses(maps) ==
    {SentinelResponse, OtherResponse} \cup {ObjectResponse(f) : f \in maps}

\* extractUserDetails: what it returns for a response text that parses
\* (index.tsx:234-245)
ExtractUserDetails_NoSentinel(resp) ==
    IF resp.kind \in {"object", "sentinel"} THEN Details(resp.val)
    ELSE NoDetails
ExtractUserDetails(resp) ==
    IF resp.kind = "sentinel" THEN NoDetails
    ELSE IF resp.kind = "object" THEN Details(resp.val)
    ELSE NoDetails

ExtractReturns == {ExtractUserDetails(resp) : resp \in ExtractResponses(FactMaps)}

----------------------------------------------------------------------------
(* Sessions: one per call of processUserRequest *)

NewSession ==
    [pc |-> "new", aborted |-> FALSE, analysis |-> NoEmotion, mode |-> "VOICE",
     fullResponse |-> <<>>, textBuffer |-> <<>>, chunks |-> 0,
     spoken |-> <<>>, extractCalled |-> FALSE, intrSpeaking |-> FALSE,
     extracted |-> NoDetails]
\* spoken: the texts the session has enqueued to Speech Playback, in order;
\* extractCalled: the session has called extractUserDetails;
\* intrSpeaking: the interrupt was invoked with AppState SPEAKING while the
\* session was in flight;
\* extracted: what the session's extractUserDetails call returned

Started == 1..nextSid

\* useSpeechSynthesis after construction (useSpeechSynthesis.ts:10-11).
\* started: the utterance at the head of the queue has raised its start
\* event; voices: the voices the engine offers; voice, lang, voiceURI: the
\* voice of the utterance speak created last and the options it was given
NoVoice == [voiceURI |-> "none", lang |-> "none", name |-> "none", localService |-> TRUE]
NewPlayback ==
    [isSpeaking |-> FALSE, started |-> FALSE, voices |-> <<>>,
     voice |-> NoVoice, lang |-> "none", voiceURI |-> "none"]

\* the item of localStorage: absent (has |-> FALSE) or a stored profile
NoItem == [has |-> FALSE, val |-> EmptyProfile]
Item(p) == [has |-> TRUE, val |-> p]

\* persist.phase: "start" before isInitialized is set, "loading" once the
\* effects of the render with isInitialized have run and the loaded profile
\* is not rendered yet, "ready" from then on.  persist.stored is the item
\* before "ready"; persist.loaded is the profile the load effect has handed
\* to setUserProfile.  The application after start-up with nothing stored:
Ready == [phase |-> "ready", stored |-> NoItem, loaded |-> NoItem]

\* the item of localStorage: once "ready", the save effect has rewritten it
\* with userProfile after every render that changed it (App.tsx:59-67)
StoredProfile == IF persist.phase = "ready" THEN Item(userProfile) ELSE persist.stored

\* useSpeechRecognition after construction (part_003:34-39).  recognitionRef:
\* the ref holds a recognition object; silenceTimer: the timeout of
\* silenceTimerRef is pending; engine: the recognition object's own state;
\* emitted: the texts onTurnEnd was called with, in order; skipped:
\* processTurn ran on a non-empty accumulator and did not call onTurnEnd;
\* flushedByStop: the processTurn of a stopListening called onTurnEnd
NewCapture ==
    [recognitionRef |-> FALSE, silenceTimer |-> FALSE, turnTranscriptRef |-> <<>>,
     engine |-> "off", emitted |-> <<>>, skipped |-> FALSE, flushedByStop |-> FALSE]

\* processUserRequest has not returned
InFlight(s) == sess[s].pc \in {"classify", "streamReq", "streaming", "flush", "extract"}

\* isProcessing (App.tsx:197)
isProcessing == appState \notin {"IDLE", "ERROR", "LISTENING"}

TypeOK ==
    /\ appState \in AppStates
    /\ emotion \in Emotions
    /\ inputMode \in InputModes
    /\ abortControllerRef \in 0..MaxSessions
    /\ nextSid \in 0..MaxSessions
    /\ hasSynth \in BOOLEAN
    /\ isListening \in BOOLEAN
    /\ idleHold \in BOOLEAN
    /\ orphaned \subseteq Sessions
    /\ DOMAIN userProfile \subseteq Keys

Init ==
    /\ appState = "IDLE"
    /\ emotion = "NEUTRAL"
    /\ inputMode = "VOICE"
    /\ conversationHistory = <<>>
    /\ userProfile = EmptyProfile
    /\ abortControllerRef = 0
    /\ sess = [s \in Sessions |-> NewSession]
    /\ nextSid = 0
    /\ queue = <<>>
    /\ orphaned = {}
    /\ hasSynth = TRUE
    /\ isListening = FALSE
    /\ idleHold = FALSE
    /\ capture = NewCapture
    /\ playback = NewPlayback
    /\ persist = Ready

----------------------------------------------------------------------------
(* Speech playback (src/hooks/useSpeechSynthesis.ts) *)

\* speak(text, {onEnd}): the queue after the call; cb is the session whose
\* promise onEnd resolves, 0 when no onEnd is given
Speak(q, text, cb) ==
    IF ~hasSynth \/ text = <<>> THEN q
    ELSE Append(q, [text |-> text, cb |-> cb])

\* synth.cancel(): the queue after the call
CancelQueue_Keep(q) == q
CancelQueue(q) == IF hasSynth THEN <<>> ELSE q

\* the sessions awaiting an utterance of q
Awaited(q) == {q[i].cb : i \in 1..Len(q)} \ {0}

----------------------------------------------------------------------------
(* Turn coordinator (src/App.tsx): processUserRequest *)

Last(h) == h[Len(h)]

\* abortControllerRef.current.abort() at the start of a turn (App.tsx:77-79)
AbortPrior_Skip(ss) == ss
AbortPrior(ss) ==
    IF abortControllerRef # 0
    THEN [ss EXCEPT ![abortControllerRef].aborted = TRUE]
    ELSE ss

\* processUserRequest(userText) up to its first await (App.tsx:72-84); st is
\* the AppState the enclosing handler leaves behind
StartTurn_KeepPrior(text, st) ==
    /\ text # <<>>
    /\ nextSid < MaxSessions
    /\ LET s == nextSid + 1 IN
        /\ appState' = st
        /\ conversationHistory' = Append(conversationHistory, UserMessage(text, s))
        /\ sess' = [sess EXCEPT ![s].pc = "classify", ![s].mode = inputMode]
        /\ abortControllerRef' = s
        /\ nextSid' = s
StartTurn(text, st) ==
    /\ text # <<>>
    /\ nextSid < MaxSessions
    /\ LET s == nextSid + 1 IN
        /\ appState' = st
        /\ conversationHistory' = Append(conversationHistory, UserMessage(text, s))
        /\ sess' = [AbortPrior(sess) EXCEPT ![s].pc = "classify", ![s].mode = inputMode]
        /\ abortControllerRef' = s
        /\ nextSid' = s

\* the finally block (App.tsx:163-169): the values it leaves in
\* <<appState, emotion, abortControllerRef>>, given the AppState before it
Finally(s, st) ==
    IF ~sess[s].aborted
    THEN <<"IDLE", "NEUTRAL", 0>>
    ELSE <<st, emotion, abortControllerRef>>

\* the catch block (App.tsx:152-162) followed by the finally block
CatchFinally_AnySender(s, msg) ==
    /\ conversationHistory' =
         IF Len(conversationHistory) > 0
         THEN [conversationHistory EXCEPT ![Len(conversationHistory)].content = msg]
         ELSE conversationHistory
    /\ appState' = Finally(s, "ERROR")[1]
    /\ emotion' = Finally(s, "ERROR")[2]
    /\ abortControllerRef' = Finally(s, "ERROR")[3]
    /\ sess' = [sess EXCEPT ![s].pc = "done"]
CatchFinally(s, msg) ==
    /\ conversationHistory' =
         IF Len(conversationHistory) > 0 /\ Last(conversationHistory).sender = "ai"
         THEN [conversationHistory EXCEPT ![Len(conversationHistory)].content = msg]
         ELSE conversationHistory
    /\ appState' = Finally(s, "ERROR")[1]
    /\ emotion' = Finally(s, "ERROR")[2]
    /\ abortControllerRef' = Finally(s, "ERROR")[3]
    /\ sess' = [sess EXCEPT ![s].pc = "done"]

\* error.message || "I seem to be having trouble connecting. ..." (App.tsx:159)
MsgDefault == <<"D">>
\* the messages of the errors a stream rejects with while iterated, in this model
RawFailures == {<<"X">>}
MessageOf(raw) == IF raw = <<>> THEN MsgDefault ELSE raw

\* performInitialAnalysis resolves (App.tsx:84-91)
ClassifyOk(s, e) ==
    /\ sess[s].pc = "classify"
    /\ emotion' = e
    /\ conversationHistory' = Append(conversationHistory, AiMessagePlaceholder(e, s))
    /\ sess' = [sess EXCEPT ![s].pc = "streamReq", ![s].analysis = e]
    /\ UNCHANGED <<appState, inputMode, userProfile, abortControllerRef, nextSid,
                   queue, orphaned, hasSynth, isListening, idleHold, capture, playback, persist>>

\* performInitialAnalysis rejects
ClassifyFail(s, err) ==
    /\ sess[s].pc = "classify"
    /\ CatchFinally(s, HandleApiError(err))
    /\ UNCHANGED <<inputMode, userProfile, nextSid, queue, orphaned, hasSynth,
                   isListening, idleHold, capture, playback, persist>>

\* generateEmpatheticResponseStream resolves (App.tsx:91-98)
StreamReqOk(s) ==
    /\ sess[s].pc = "streamReq"
    /\ appState' = "SPEAKING"
    /\ sess' = [sess EXCEPT ![s].pc = "streaming"]
    /\ UNCHANGED <<emotion, inputMode, conversationHistory, userProfile,
                   abortControllerRef, nextSid, queue, orphaned, hasSynth,
                   isListening, idleHold, capture, playback, persist>>

\* generateEmpatheticResponseStream rejects
StreamReqFail(s, err) ==
    /\ sess[s].pc = "streamReq"
    /\ CatchFinally(s, HandleApiError(err))
    /\ UNCHANGED <<inputMode, userProfile, nextSid, queue, orphaned, hasSynth,
                   isListening, idleHold, capture, playback, persist>>

\* the filter of the abort clean-up (App.tsx:140)
CleanupFilter(h, e) ==
    SelectSeq(h, LAMBDA m : m.content # <<>> \/ m.sender # "ai" \/ m.detectedEmotion # e)

\* if (controller.signal.aborted) (App.tsx:138)
SeesAbort_Never(s) == FALSE
SeesAbort(s) == sess[s].aborted

\* the code after `await streamAndSpeak()` up to the next await or return
\* (App.tsx:138-147); ss is the session table streamAndSpeak leaves
AfterStream(s, ss) ==
    IF SeesAbort(s)
    THEN /\ conversationHistory' = CleanupFilter(conversationHistory, sess[s].analysis)
         /\ appState' = "IDLE"
         /\ emotion' = "NEUTRAL"
         /\ sess' = [ss EXCEPT ![s].pc = "done"]
    ELSE /\ sess' = [ss EXCEPT ![s].pc = "extract", ![s].extractCalled = TRUE]
         /\ UNCHANGED <<conversationHistory, appState, emotion>>

\* the sentence flush of one pass of the loop (App.tsx:114-123): the piece to
\* speak (empty when there is none) and the buffer that remains
Segment_Never(buf) == [piece |-> <<>>, rest |-> buf]
Segment(buf) ==
    LET sentences == MatchSentences(buf)
        sentenceToSpeak == JoinSpace(sentences)
    IN  IF HasTerminator(buf) /\ sentences # <<>>
        THEN [piece |-> sentenceToSpeak, rest |-> Substring(buf, Len(sentenceToSpeak))]
        ELSE [piece |-> <<>>, rest |-> buf]

\* the stream delivers a fragment: one pass of the for-await loop
\* (App.tsx:98-124); a stream delivers at most n fragments
ChunkUpTo(s, frag, n) ==
    /\ sess[s].pc = "streaming"
    /\ IF sess[s].aborted
       THEN /\ AfterStream(s, sess)
            /\ UNCHANGED <<queue>>
       ELSE /\ sess[s].chunks < n
            /\ LET full == sess[s].fullResponse \o frag
                   seg == Segment(sess[s].textBuffer \o frag)
                   say == seg.piece # <<>> /\ sess[s].mode = "VOICE"
               IN  /\ conversationHistory' =
                        IF Len(conversationHistory) > 0
                           /\ Last(conversationHistory).sender = "ai"
                        THEN [conversationHistory EXCEPT
                                ![Len(conversationHistory)].content = full]
                        ELSE conversationHistory
                   /\ queue' = IF say THEN Speak(queue, seg.piece, 0) ELSE queue
                   /\ sess' = [sess EXCEPT
                                ![s].fullResponse = full,
                                ![s].textBuffer = seg.rest,
                                ![s].chunks = @ + 1,
                                ![s].spoken = IF say /\ hasSynth
                                              THEN Append(@, seg.piece) ELSE @]
            /\ UNCHANGED <<appState, emotion>>
    /\ UNCHANGED <<inputMode, userProfile, abortControllerRef, nextSid, orphaned,
                   hasSynth, isListening, idleHold, capture, playback, persist>>

Chunk(s, frag) == ChunkUpTo(s, frag, MaxChunks)

\* the stream ends: the loop exits and the trailing text is flushed
\* (App.tsx:124-136)
StreamEnd_NoWait(s) ==
    /\ sess[s].pc = "streaming"
    /\ LET rest == Trim(sess[s].textBuffer)
           say == rest # <<>> /\ ~sess[s].aborted /\ sess[s].mode = "VOICE"
       IN  /\ queue' = IF say THEN Speak(queue, rest, 0) ELSE queue
           /\ AfterStream(s, [sess EXCEPT
                                ![s].spoken = IF say /\ hasSynth
                                              THEN Append(@, rest) ELSE @])
    /\ UNCHANGED <<inputMode, userProfile, abortControllerRef, nextSid, orphaned,
                   hasSynth, isListening, idleHold, capture, playback, persist>>
StreamEnd(s) ==
    /\ sess[s].pc = "streaming"
    /\ LET rest == Trim(sess[s].textBuffer) IN
       IF rest # <<>> /\ ~sess[s].aborted /\ sess[s].mode = "VOICE"
       THEN /\ queue' = Speak(queue, rest, s)
            /\ sess' = [sess EXCEPT ![s].pc = "flush",
                                    ![s].spoken = IF hasSynth THEN Append(@, rest) ELSE @]
            /\ UNCHANGED <<conversationHistory, appState, emotion>>
       ELSE /\ AfterStream(s, sess)
            /\ UNCHANGED <<queue>>
    /\ UNCHANGED <<inputMode, userProfile, abortControllerRef, nextSid, orphaned,
                   hasSynth, isListening, idleHold, capture, playback, persist>>

\* the stream rejects while it is iterated: the error is not one of handleApiError
StreamFail(s, raw) ==
    /\ sess[s].pc = "streaming"
    /\ CatchFinally(s, MessageOf(raw))
    /\ UNCHANGED <<inputMode, userProfile, nextSid, queue, orphaned, hasSynth,
                   isListening, idleHold, capture, playback, persist>>

\* {...prevProfile, ...extractedDetails} (App.tsx:149)
Merge_FirstWins(p, f) ==
    [k \in DOMAIN p \cup DOMAIN f |-> IF k \in DOMAIN p THEN p[k] ELSE f[k]]
Merge(p, f) ==
    [k \in DOMAIN p \cup DOMAIN f |-> IF k \in DOMAIN f THEN f[k] ELSE p[k]]

\* extractUserDetails resolves (App.tsx:147-150, 163-169)
ExtractOk(s, r) ==
    /\ sess[s].pc = "extract"
    /\ userProfile' = IF ~r.none /\ DOMAIN r.val # {}
                      THEN Merge(userProfile, r.val) ELSE userProfile
    /\ appState' = Finally(s, appState)[1]
    /\ emotion' = Finally(s, appState)[2]
    /\ abortControllerRef' = Finally(s, appState)[3]
    /\ sess' = [sess EXCEPT ![s].pc = "done", ![s].extracted = r]
    /\ UNCHANGED <<inputMode, conversationHistory, nextSid, queue, orphaned,
                   hasSynth, isListening, idleHold, capture, playback, persist>>

\* extractUserDetails rejects
ExtractFail(s, err) ==
    /\ sess[s].pc = "extract"
    /\ CatchFinally(s, HandleApiError(err))
    /\ UNCHANGED <<inputMode, userProfile, nextSid, queue, orphaned, hasSynth,
                   isListening, idleHold, capture, playback, persist>>

\* emotionLogEntries (App.tsx:234-248): one entry per agent message that has
\* an emotion and a user message before it, pairing the nearest one with it
PrevUser_First(h, i) ==
    LET U == {j \in 1..(i - 1) : h[j].sender = "user"}
    IN  IF U = {} THEN 0 ELSE CHOOSE j \in U : \A k \in U : j <= k
PrevUser(h, i) ==
    LET U == {j \in 1..(i - 1) : h[j].sender = "user"}
    IN  IF U = {} THEN 0 ELSE CHOOSE j \in U : \A k \in U : k <= j

RECURSIVE EmotionLogUpTo(_, _)
EmotionLogUpTo(h, n) ==
    IF n = 0 THEN <<>>
    ELSE LET acc == EmotionLogUpTo(h, n - 1)
             j == PrevUser(h, n)
         IN  IF h[n].sender = "ai" /\ h[n].detectedEmotion # NoEmotion /\ j # 0
             THEN Append(acc, [userMessage |-> h[j].content,
                               emotion |-> h[n].detectedEmotion])
             ELSE acc

emotionLogEntries == EmotionLogUpTo(conversationHistory, Len(conversationHistory))

----------------------------------------------------------------------------
(* Speech playback events *)

\* the utterance at the head of the queue ends or fails: utterance.onend and
\* utterance.onerror both call onEnd (useSpeechSynthesis.ts:71-88), which
\* resolves the promise of the final flush (App.tsx:126-132)
UtteranceEnd ==
    /\ queue # <<>>
    /\ queue' = Tail(queue)
    /\ IF Head(queue).cb # 0 /\ sess[Head(queue).cb].pc = "flush"
       THEN AfterStream(Head(queue).cb, sess)
       ELSE UNCHANGED <<conversationHistory, appState, emotion, sess>>
    /\ UNCHANGED <<inputMode, userProfile, abortControllerRef, nextSid, orphaned,
                   hasSynth, isListening, idleHold, capture, playback, persist>>

\* the engine reports the end of an utterance that cancel() removed (whether
\* it does is the engine's choice)
CancelledUtteranceEvent(s) ==
    /\ s \in orphaned
    /\ orphaned' = orphaned \ {s}
    /\ IF sess[s].pc = "flush"
       THEN AfterStream(s, sess)
       ELSE UNCHANGED <<conversationHistory, appState, emotion, sess>>
    /\ UNCHANGED <<inputMode, userProfile, abortControllerRef, nextSid, queue,
                   hasSynth, isListening, idleHold, capture, playback, persist>>

----------------------------------------------------------------------------
(* User-raised events *)

\* TextInput's handleSubmit (src/components/TextInput.tsx:17-23) calling
\* processUserRequest
SubmitText(text) ==
    /\ inputMode = "TEXT"
    /\ ~isProcessing
    /\ StartTurn(text, "THINKING")
    /\ idleHold' = FALSE
    /\ UNCHANGED <<emotion, inputMode, userProfile, queue, orphaned, hasSynth,
                   isListening, capture, playback, persist>>

\* Speech Capture's processTurn calling onTurnEnd with the finalized text
SpeechTurnEnd(text) ==
    /\ isListening
    /\ StartTurn(text, "THINKING")
    /\ idleHold' = FALSE
    /\ UNCHANGED <<emotion, inputMode, userProfile, queue, orphaned, hasSynth,
                   isListening, capture, playback, persist>>

\* handleMicClick while isProcessing: the interrupt (App.tsx:199-207)
Interrupt ==
    /\ inputMode = "VOICE"
    /\ isProcessing
    /\ sess' = [s \in Sessions |->
                 [sess[s] EXCEPT
                    !.aborted = @ \/ s = abortControllerRef,
                    !.intrSpeaking = @ \/ (InFlight(s) /\ appState = "SPEAKING")]]
    /\ queue' = CancelQueue(queue)
    /\ orphaned' = orphaned \cup Awaited(queue)
    /\ appState' = "IDLE"
    /\ emotion' = "NEUTRAL"
    /\ idleHold' = TRUE
    /\ UNCHANGED <<inputMode, conversationHistory, userProfile, abortControllerRef,
                   nextSid, hasSynth, isListening, capture, playback, persist>>

\* handleMicClick otherwise: the record toggle (App.tsx:209-216); stopListening
\* flushes the pending text, if any, as one finalized turn
ToggleRecording ==
    /\ inputMode = "VOICE"
    /\ ~isProcessing
    /\ idleHold' = FALSE
    /\ IF isListening
       THEN /\ isListening' = FALSE
            /\ \/ \E text \in UserTexts : StartTurn(text, "THINKING")
               \/ UNCHANGED <<appState, conversationHistory, sess,
                              abortControllerRef, nextSid>>
       ELSE /\ isListening' = TRUE
            /\ appState' = "LISTENING"
            /\ UNCHANGED <<conversationHistory, sess, abortControllerRef, nextSid>>
    /\ UNCHANGED <<emotion, inputMode, userProfile, queue, orphaned, hasSynth,
                   capture, playback, persist>>

\* Tabs' onTabChange (App.tsx:296): cancel(); stopListening();
\* setAppState(IDLE); setInputMode(mode)
TabChange(mode) ==
    /\ queue' = CancelQueue(queue)
    /\ orphaned' = orphaned \cup Awaited(queue)
    /\ isListening' = FALSE
    /\ inputMode' = mode
    /\ \/ /\ isListening
          /\ \E text \in UserTexts : StartTurn(text, "IDLE")
       \/ /\ appState' = "IDLE"
          /\ UNCHANGED <<conversationHistory, sess, abortControllerRef, nextSid>>
    /\ UNCHANGED <<emotion, userProfile, hasSynth, idleHold, capture, playback, persist>>

\* handleClearProfile, confirmed (App.tsx:184-188)
ClearProfile ==
    /\ inputMode = "PROFILE"
    /\ userProfile' = EmptyProfile
    /\ UNCHANGED <<appState, emotion, inputMode, conversationHistory,
                   abortControllerRef, sess, nextSid, queue, orphaned, hasSynth,
                   isListening, idleHold, capture, playback, persist>>

----------------------------------------------------------------------------
(* Speech Capture (src/unnamed/part_003), event by event *)

MaxTranscriptLen == 4

\* the transcripts of the final results of a result event, in this model
Transcripts == {<<"u">>, <<" ">>}
\* the final results one result event carries: none (interim only) or one
FinalResults == {<<>>} \cup {<<tr>> : tr \in Transcripts}

\* turnTranscriptRef.current += transcript + ' ', for each final result
RECURSIVE Accumulate(_, _)
Accumulate(acc, finals) ==
    IF finals = <<>> THEN acc
    ELSE Accumulate(acc \o Head(finals) \o <<" ">>, Tail(finals))

\* clearTimeout(silenceTimerRef.current)
ClearTimer_Keep(c) == c
ClearTimer(c) == [c EXCEPT !.silenceTimer = FALSE]

\* if (turnTranscriptRef.current.trim()) (part_003:47)
ProcessTurnCalls_Always(c) == TRUE
ProcessTurnCalls(c) == Trim(c.turnTranscriptRef) # <<>>

\* processTurn (part_003:46-52) with onTurnEnd = processUserRequest
\* (App.tsx:172); c is the capture record its caller leaves, byStop tells
\* that the caller is stopListening
ProcessTurn(c, byStop) ==
    LET text == Trim(c.turnTranscriptRef)
        calls == ProcessTurnCalls(c)
    IN  /\ capture' = [c EXCEPT
                         !.turnTranscriptRef = <<>>,
                         !.emitted = IF calls THEN Append(@, text) ELSE @,
                         !.skipped = @ \/ (~calls /\ c.turnTranscriptRef # <<>>),
                         !.flushedByStop = @ \/ (calls /\ byStop)]
        /\ idleHold' = IF calls THEN FALSE ELSE idleHold
        /\ IF calls /\ text # <<>>
           THEN StartTurn(text, "THINKING")
           ELSE UNCHANGED <<appState, conversationHistory, sess,
                            abortControllerRef, nextSid>>

\* stopListening (part_003:54-64): the capture record before its processTurn
StopListeningClears(c) ==
    [ClearTimer(c) EXCEPT !.engine = IF c.engine = "running" THEN "stopping" ELSE @]

\* handleMicClick, neither processing nor listening (App.tsx:212-215) with
\* startListening (part_003:79-141); ok tells whether recognition.start()
\* returns rather than throws.  A new recognition is started only once the
\* previous one has ended.
StartListening(ok) ==
    /\ inputMode = "VOICE"
    /\ ~isProcessing
    /\ ~isListening
    /\ capture.engine = "off"
    /\ appState' = "LISTENING"
    /\ isListening' = ok
    /\ capture' = [capture EXCEPT !.turnTranscriptRef = <<>>,
                                  !.recognitionRef = ok,
                                  !.engine = IF ok THEN "running" ELSE "off"]
    /\ idleHold' = FALSE
    /\ UNCHANGED <<emotion, inputMode, conversationHistory, userProfile,
                   abortControllerRef, sess, nextSid, queue, orphaned, hasSynth,
                   playback, persist>>

\* handleMicClick, not processing, listening (App.tsx:209-211): stopListening()
MicStop ==
    /\ inputMode = "VOICE"
    /\ ~isProcessing
    /\ isListening
    /\ IF capture.recognitionRef
       THEN ProcessTurn(StopListeningClears(capture), TRUE)
       ELSE UNCHANGED <<capture, idleHold, appState, conversationHistory, sess,
                        abortControllerRef, nextSid>>
    /\ UNCHANGED <<emotion, inputMode, userProfile, queue, orphaned, hasSynth,
                   isListening,
                   playback, persist>>

\* recognition.onresult (part_003:96-116)
OnResult(finals) ==
    /\ capture.engine \in {"running", "stopping"}
    /\ Len(Accumulate(capture.turnTranscriptRef, finals)) <= MaxTranscriptLen
    /\ capture' = [ClearTimer(capture) EXCEPT
                     !.turnTranscriptRef = Accumulate(@, finals),
                     !.silenceTimer = TRUE]
    /\ UNCHANGED <<appState, emotion, inputMode, conversationHistory, userProfile,
                   abortControllerRef, sess, nextSid, queue, orphaned, hasSynth,
                   isListening, idleHold,
                   playback, persist>>

\* the timeout of silenceTimerRef expires (part_003:113-115)
SilenceTimer ==
    /\ capture.silenceTimer
    /\ ProcessTurn([capture EXCEPT !.silenceTimer = FALSE], FALSE)
    /\ UNCHANGED <<emotion, inputMode, userProfile, queue, orphaned, hasSynth,
                   isListening,
                   playback, persist>>

\* recognition.onerror (part_003:118-123); the engine raises end after error
OnError ==
    /\ capture.engine \in {"running", "stopping"}
    /\ isListening' = FALSE
    /\ capture' = [capture EXCEPT !.recognitionRef = FALSE, !.engine = "errored"]
    /\ UNCHANGED <<appState, emotion, inputMode, conversationHistory, userProfile,
                   abortControllerRef, sess, nextSid, queue, orphaned, hasSynth,
                   idleHold,
                   playback, persist>>

\* recognition.onend (part_003:125-130)
OnEnd ==
    /\ capture.engine \in {"running", "stopping", "errored"}
    /\ isListening' = FALSE
    /\ capture' = [ClearTimer(capture) EXCEPT !.recognitionRef = FALSE,
                                              !.engine = "off"]
    /\ UNCHANGED <<appState, emotion, inputMode, conversationHistory, userProfile,
                   abortControllerRef, sess, nextSid, queue, orphaned, hasSynth,
                   idleHold,
                   playback, persist>>

\* Tabs' onTabChange (App.tsx:296) with stopListening event by event
TabStop(mode) ==
    /\ queue' = CancelQueue(queue)
    /\ orphaned' = orphaned \cup Awaited(queue)
    /\ inputMode' = mode
    /\ IF capture.recognitionRef
       THEN LET c == StopListeningClears(capture)
                text == Trim(c.turnTranscriptRef)
                calls == ProcessTurnCalls(c)
            IN  /\ capture' = [c EXCEPT
                                 !.turnTranscriptRef = <<>>,
                                 !.emitted = IF calls THEN Append(@, text) ELSE @,
                                 !.skipped = @ \/ (~calls /\ c.turnTranscriptRef # <<>>),
                                 !.flushedByStop = @ \/ calls]
                /\ IF calls /\ text # <<>>
                   THEN StartTurn(text, "IDLE")
                   ELSE /\ appState' = "IDLE"
                        /\ UNCHANGED <<conversationHistory, sess,
                                       abortControllerRef, nextSid>>
       ELSE /\ appState' = "IDLE"
            /\ UNCHANGED <<capture, conversationHistory, sess,
                           abortControllerRef, nextSid>>
    /\ UNCHANGED <<emotion, userProfile, hasSynth, isListening, idleHold,
                   playback, persist>>

\* Speech Capture with the mic button, the tabs and the interrupt
NextCapture ==
    \/ \E ok \in BOOLEAN : StartListening(ok)
    \/ MicStop
    \/ \E finals \in FinalResults : OnResult(finals)
    \/ SilenceTimer
    \/ OnError
    \/ OnEnd
    \/ \E mode \in InputModes : TabStop(mode)
    \/ Interrupt

SpecCapture == Init /\ [][NextCapture]_vars

----------------------------------------------------------------------------
(* Speech Playback (src/hooks/useSpeechSynthesis.ts), event by event.  speak *)
(* itself changes neither isSpeaking nor the start mark of the queue's head. *)

\* utterance.onstart (useSpeechSynthesis.ts:68-70) of the head of the queue
OnStart ==
    /\ queue # <<>>
    /\ ~playback.started
    /\ playback' = [playback EXCEPT !.started = TRUE, !.isSpeaking = TRUE]
    /\ UNCHANGED <<appState, emotion, inputMode, conversationHistory, userProfile,
                   abortControllerRef, sess, nextSid, queue, orphaned, hasSynth,
                   isListening, idleHold, capture, persist>>

\* utterance.onend / utterance.onerror (useSpeechSynthesis.ts:71-88) of the
\* head of the queue; synth.speaking is taken to be true while utterances
\* remain queued
OnEndOrError ==
    /\ queue # <<>>
    /\ queue' = Tail(queue)
    /\ playback' = [playback EXCEPT
                      !.started = FALSE,
                      !.isSpeaking = IF Tail(queue) = <<>> THEN FALSE ELSE @]
    /\ IF Head(queue).cb # 0 /\ sess[Head(queue).cb].pc = "flush"
       THEN AfterStream(Head(queue).cb, sess)
       ELSE UNCHANGED <<conversationHistory, appState, emotion, sess>>
    /\ UNCHANGED <<inputMode, userProfile, abortControllerRef, nextSid, orphaned,
                   hasSynth, isListening, idleHold, capture, persist>>

\* cancel() (useSpeechSynthesis.ts:93-98): the hook's state after the call
CancelPlayback(b) ==
    IF hasSynth THEN [b EXCEPT !.started = FALSE, !.isSpeaking = FALSE] ELSE b

\* handleMicClick while isProcessing (App.tsx:199-207) with cancel() in full
MicInterrupt ==
    /\ inputMode = "VOICE"
    /\ isProcessing
    /\ sess' = [s \in Sessions |->
                 [sess[s] EXCEPT
                    !.aborted = @ \/ s = abortControllerRef,
                    !.intrSpeaking = @ \/ (InFlight(s) /\ appState = "SPEAKING")]]
    /\ queue' = CancelQueue(queue)
    /\ playback' = CancelPlayback(playback)
    /\ orphaned' = orphaned \cup Awaited(queue)
    /\ appState' = "IDLE"
    /\ emotion' = "NEUTRAL"
    /\ idleHold' = TRUE
    /\ UNCHANGED <<inputMode, conversationHistory, userProfile, abortControllerRef,
                   nextSid, hasSynth, isListening, capture, persist>>

\* the voices an engine may offer, in this model: name stands for what the
\* tests /google/i and /microsoft/i find in voice.name
Voice(uri, lang, name, loc) ==
    [voiceURI |-> uri, lang |-> lang, name |-> name, localService |-> loc]

VoicePool ==
    {Voice("u1", "en-US", "google", FALSE), Voice("u2", "en-US", "other", TRUE),
     Voice("u3", "en-US", "microsoft", FALSE), Voice("u4", "fr-FR", "other", FALSE),
     Voice("u5", "en-US", "google", TRUE), Voice("u6", "en-US", "other", FALSE)}

MaxVoices == 3

\* the lists of at most n different voices of the pool
RECURSIVE VoiceListsUpTo(_)
VoiceListsUpTo(n) ==
    IF n = 0 THEN {<<>>}
    ELSE LET shorter == VoiceListsUpTo(n - 1)
         IN  shorter \cup
             {Append(p[1], p[2]) :
                p \in {q \in shorter \X VoicePool :
                         /\ Len(q[1]) = n - 1
                         /\ \A i \in 1..Len(q[1]) : q[1][i] # q[2]}}

VoiceLists == VoiceListsUpTo(MaxVoices)

\* the language hints and voice ids speak is called with ("none": not given)
LangHints == {"en-US", "fr-FR", "de-DE"}
VoiceIds == {"none", "u2", "u4", "u9"}

\* Array.prototype.find: the first voice of vs that is in the set ok, NoVoice
\* standing for undefined
Find(vs, ok) ==
    LET I == {i \in 1..Len(vs) : vs[i] \in ok}
    IN  IF I = {} THEN NoVoice ELSE vs[CHOOSE i \in I : \A j \in I : i <= j]

\* the voice speak gives the utterance (useSpeechSynthesis.ts:42-62), NoVoice
\* standing for none
ResolveVoice_FirstOfLanguage(vs, lang, uri) ==
    LET byUri == IF uri # "none" THEN Find(vs, {v \in VoicePool : v.voiceURI = uri})
                 ELSE NoVoice
    IN  IF byUri # NoVoice THEN byUri
        ELSE Find(vs, {v \in VoicePool : v.lang = lang})
ResolveVoice(vs, lang, uri) ==
    LET byUri == IF uri # "none" THEN Find(vs, {v \in VoicePool : v.voiceURI = uri})
                 ELSE NoVoice
        languageVoices == SelectSeq(vs, LAMBDA v : v.lang = lang)
        google == Find(languageVoices,
                       {v \in VoicePool : v.name = "google" /\ ~v.localService})
        microsoft == Find(languageVoices,
                          {v \in VoicePool : v.name = "microsoft" /\ ~v.localService})
        remote == Find(languageVoices, {v \in VoicePool : ~v.localService})
    IN  IF vs = <<>> THEN NoVoice
        ELSE IF byUri # NoVoice THEN byUri
        ELSE IF google # NoVoice THEN google
        ELSE IF microsoft # NoVoice THEN microsoft
        ELSE IF remote # NoVoice THEN remote
        ELSE IF languageVoices # <<>> THEN languageVoices[1]
        ELSE NoVoice

\* speak(text, {lang, voiceURI}) called on an empty queue
\* (useSpeechSynthesis.ts:35-91)
SpeakCall(text, lang, uri) ==
    /\ queue = <<>>
    /\ queue' = Speak(queue, text, 0)
    /\ playback' = IF ~hasSynth \/ text = <<>> THEN playback
                   ELSE [playback EXCEPT
                           !.voice = ResolveVoice(playback.voices, lang, uri),
                           !.lang = lang, !.voiceURI = uri]
    /\ UNCHANGED <<appState, emotion, inputMode, conversationHistory, userProfile,
                   abortControllerRef, sess, nextSid, orphaned, hasSynth,
                   isListening, idleHold, capture, persist>>

\* the engine offers any list of voices (the voiceschanged handler has run,
\* useSpeechSynthesis.ts:19-27)
InitVoice ==
    /\ appState = "IDLE"
    /\ emotion = "NEUTRAL"
    /\ inputMode = "VOICE"
    /\ conversationHistory = <<>>
    /\ userProfile = EmptyProfile
    /\ abortControllerRef = 0
    /\ sess = [s \in Sessions |-> NewSession]
    /\ nextSid = 0
    /\ queue = <<>>
    /\ orphaned = {}
    /\ hasSynth = TRUE
    /\ isListening = FALSE
    /\ idleHold = FALSE
    /\ capture = NewCapture
    /\ playback \in {[NewPlayback EXCEPT !.voices = vs] : vs \in VoiceLists}
    /\ persist = Ready

NextVoice ==
    \/ \E text \in UserTexts, lang \in LangHints, uri \in VoiceIds :
          SpeakCall(text, lang, uri)
    \/ OnStart
    \/ OnEndOrError

SpecVoice == InitVoice /\ [][NextVoice]_vars

\* voice turns with the playback events and the interrupt; every call succeeds
NextPlayback ==
    \/ ~isListening /\ ToggleRecording
    \/ \E text \in UserTexts : SpeechTurnEnd(text)
    \/ \E s \in Sessions, e \in ClassifyEmotions : ClassifyOk(s, e)
    \/ \E s \in Sessions : StreamReqOk(s)
    \/ \E s \in Sessions, frag \in Fragments : Chunk(s, frag)
    \/ \E s \in Sessions : StreamEnd(s)
    \/ \E s \in Sessions, r \in ExtractReturns : ExtractOk(s, r)
    \/ OnStart
    \/ OnEndOrError
    \/ MicInterrupt

SpecPlayback == Init /\ [][NextPlayback]_vars

----------------------------------------------------------------------------

Next ==
    \/ \E text \in UserTexts : SubmitText(text)
    \/ \E text \in UserTexts : SpeechTurnEnd(text)
    \/ Interrupt
    \/ ToggleRecording
    \/ \E mode \in InputModes : TabChange(mode)
    \/ ClearProfile
    \/ \E s \in Sessions, e \in ClassifyEmotions : ClassifyOk(s, e)
    \/ \E s \in Sessions, err \in CallFailures : ClassifyFail(s, err)
    \/ \E s \in Sessions : StreamReqOk(s)
    \/ \E s \in Sessions, err \in CallFailures : StreamReqFail(s, err)
    \/ \E s \in Sessions, frag \in Fragments : Chunk(s, frag)
    \/ \E s \in Sessions : StreamEnd(s)
    \/ \E s \in Sessions, raw \in RawFailures : StreamFail(s, raw)
    \/ \E s \in Sessions, r \in ExtractReturns : ExtractOk(s, r)
    \/ \E s \in Sessions, err \in CallFailures : ExtractFail(s, err)
    \/ UtteranceEnd
    \/ \E s \in Sessions : CancelledUtteranceEvent(s)

Spec == Init /\ [][Next]_vars

----------------------------------------------------------------------------
(* Turns with two different user texts: the Transcript behind the emotion log *)

LogTexts == {<<"u">>, <<"v">>}

NextLog ==
    \/ \E text \in LogTexts : SubmitText(text)
    \/ \E text \in LogTexts : SpeechTurnEnd(text)
    \/ ToggleRecording
    \/ \E mode \in InputModes : TabChange(mode)
    \/ \E s \in Sessions, e \in ClassifyEmotions : ClassifyOk(s, e)
    \/ \E s \in Sessions, err \in CallFailures : ClassifyFail(s, err)
    \/ \E s \in Sessions : StreamReqOk(s)
    \/ \E s \in Sessions, frag \in Fragments : Chunk(s, frag)
    \/ \E s \in Sessions : StreamEnd(s)
    \/ \E s \in Sessions : ExtractOk(s, NoDetails)
    \/ UtteranceEnd

SpecLog == Init /\ [][NextLog]_vars

----------------------------------------------------------------------------
(* Voice turns over every short fragment: the segmentation of streamAndSpeak *)

MaxFragLen == 5

SegAlphabet == {"a", ".", " "}

RECURSIVE Texts(_)
Texts(n) ==
    IF n = 0 THEN {<<>>}
    ELSE Texts(n - 1) \cup {Append(x, c) : x \in Texts(n - 1), c \in SegAlphabet}

\* the non-empty fragments of at most MaxFragLen characters
SegFragments == Texts(MaxFragLen) \ {<<>>}

\* one voice turn, not interrupted, whose calls all succeed
NextSeg ==
    \/ ~isListening /\ ToggleRecording
    \/ \E text \in UserTexts : nextSid = 0 /\ SpeechTurnEnd(text)
    \/ \E s \in Sessions, e \in ClassifyEmotions : ClassifyOk(s, e)
    \/ \E s \in Sessions : StreamReqOk(s)
    \/ \E s \in Sessions, frag \in SegFragments : Chunk(s, frag)
    \/ \E s \in Sessions : StreamEnd(s)
    \/ \E s \in Sessions, r \in ExtractReturns : ExtractOk(s, r)
    \/ UtteranceEnd

SpecSeg == Init /\ [][NextSeg]_vars

----------------------------------------------------------------------------
(* Successive voice turns over richer extractions: the profile merge *)

MergeKeys == {"name", "city"}
MergeValues == {"Ann", "Anne"}

\* the objects over MergeKeys
MergeFactMaps == UNION {[d -> MergeValues] : d \in SUBSET MergeKeys}

MergeReturns == {ExtractUserDetails(resp) : resp \in ExtractResponses(MergeFactMaps)}

\* the profile is the one the mount effect loads from storage (App.tsx:46-56)
InitMerge ==
    /\ appState = "IDLE"
    /\ emotion = "NEUTRAL"
    /\ inputMode = "VOICE"
    /\ conversationHistory = <<>>
    /\ userProfile \in MergeFactMaps
    /\ abortControllerRef = 0
    /\ sess = [s \in Sessions |-> NewSession]
    /\ nextSid = 0
    /\ queue = <<>>
    /\ orphaned = {}
    /\ hasSynth = TRUE
    /\ isListening = FALSE
    /\ idleHold = FALSE
    /\ capture = NewCapture
    /\ playback = NewPlayback
    /\ persist = Ready

\* voice turns one after the other, not interrupted, whose calls all succeed
NextMerge ==
    \/ ~isListening /\ ToggleRecording
    \/ \E text \in UserTexts :
          (\A s \in Started : sess[s].pc = "done") /\ SpeechTurnEnd(text)
    \/ \E s \in Sessions, e \in ClassifyEmotions : ClassifyOk(s, e)
    \/ \E s \in Sessions : StreamReqOk(s)
    \/ \E s \in Sessions, frag \in Fragments : Chunk(s, frag)
    \/ \E s \in Sessions : StreamEnd(s)
    \/ \E s \in Sessions, r \in MergeReturns : ExtractOk(s, r)
    \/ UtteranceEnd

SpecMerge == InitMerge /\ [][NextMerge]_vars

----------------------------------------------------------------------------
(* One voice turn whose stream delivers the fragments "I'm so sorry",       *)
(* " for your loss." and " That's incredibly hard.", in any order           *)

ScenarioChunks == 3

FragSorry == <<"I", "'", "m", " ", "s", "o", " ", "s", "o", "r", "r", "y">>
FragLoss == <<" ", "f", "o", "r", " ", "y", "o", "u", "r", " ", "l", "o", "s", "s", ".">>
FragHard == <<" ", "T", "h", "a", "t", "'", "s", " ", "i", "n", "c", "r", "e", "d",
              "i", "b", "l", "y", " ", "h", "a", "r", "d", ".">>

ScenarioFragments == {FragSorry, FragLoss, FragHard}

NextScenario ==
    \/ ~isListening /\ ToggleRecording
    \/ \E text \in UserTexts : nextSid = 0 /\ SpeechTurnEnd(text)
    \/ \E s \in Sessions, e \in ClassifyEmotions : ClassifyOk(s, e)
    \/ \E s \in Sessions : StreamReqOk(s)
    \/ \E s \in Sessions, frag \in ScenarioFragments :
          ChunkUpTo(s, frag, ScenarioChunks)
    \/ \E s \in Sessions : StreamEnd(s)
    \/ \E s \in Sessions, r \in ExtractReturns : ExtractOk(s, r)
    \/ UtteranceEnd

SpecScenario == Init /\ [][NextScenario]_vars

----------------------------------------------------------------------------
(* One voice turn on a platform without speech synthesis *)

\* 'speechSynthesis' in window is false: synthRef.current stays null
\* (useSpeechSynthesis.ts:15-17)
InitNoSynth ==
    /\ appState = "IDLE"
    /\ emotion = "NEUTRAL"
    /\ inputMode = "VOICE"
    /\ conversationHistory = <<>>
    /\ userProfile = EmptyProfile
    /\ abortControllerRef = 0
    /\ sess = [s \in Sessions |-> NewSession]
    /\ nextSid = 0
    /\ queue = <<>>
    /\ orphaned = {}
    /\ hasSynth = FALSE
    /\ isListening = FALSE
    /\ idleHold = FALSE
    /\ capture = NewCapture
    /\ playback = NewPlayback
    /\ persist = Ready

\* one voice turn, not interrupted, whose calls all return; no utterance is
\* ever queued, so none ends
NextNoSynth ==
    \/ ~isListening /\ ToggleRecording
    \/ \E text \in UserTexts : nextSid = 0 /\ SpeechTurnEnd(text)
    \/ \E s \in Sessions, e \in ClassifyEmotions : ClassifyOk(s, e)
    \/ \E s \in Sessions : StreamReqOk(s)
    \/ \E s \in Sessions, frag \in SegFragments : Chunk(s, frag)
    \/ \E s \in Sessions : StreamEnd(s)
    \/ \E s \in Sessions, r \in ExtractReturns : ExtractOk(s, r)

\* every call that is awaited settles and every handler that can run does
SpecNoSynth == InitNoSynth /\ [][NextNoSynth]_vars /\ WF_vars(NextNoSynth)

----------------------------------------------------------------------------
(* Start-up with a stored profile, then turns that extract facts *)

\* before isInitialized is set (App.tsx:22): nothing is rendered but the key
\* prompt; localStorage holds no profile or any profile over MergeKeys
InitPersist ==
    /\ appState = "IDLE"
    /\ emotion = "NEUTRAL"
    /\ inputMode = "VOICE"
    /\ conversationHistory = <<>>
    /\ userProfile = EmptyProfile
    /\ abortControllerRef = 0
    /\ sess = [s \in Sessions |-> NewSession]
    /\ nextSid = 0
    /\ queue = <<>>
    /\ orphaned = {}
    /\ hasSynth = TRUE
    /\ isListening = FALSE
    /\ idleHold = FALSE
    /\ capture = NewCapture
    /\ playback = NewPlayback
    /\ persist \in {[phase |-> "start", stored |-> i, loaded |-> NoItem] :
                      i \in {NoItem} \cup {Item(p) : p \in MergeFactMaps}}

\* the effects of the first render with isInitialized, in declaration order:
\* the load effect (App.tsx:47-57) hands the stored profile, if there is an
\* item, to setUserProfile; the save effect (App.tsx:60-67) then writes the
\* userProfile of this render
InitializedEffects ==
    /\ persist.phase = "start"
    /\ persist' = IF persist.stored.has
                  THEN [phase |-> "loading", stored |-> Item(userProfile),
                        loaded |-> persist.stored]
                  ELSE Ready
    /\ UNCHANGED <<appState, emotion, inputMode, conversationHistory, userProfile,
                   abortControllerRef, sess, nextSid, queue, orphaned, hasSynth,
                   isListening, idleHold, capture, playback>>

\* the render with the loaded profile; the save effect runs again
\* (App.tsx:60-67) and writes it
ProfileLoadedRender ==
    /\ persist.phase = "loading"
    /\ userProfile' = persist.loaded.val
    /\ persist' = Ready
    /\ UNCHANGED <<appState, emotion, inputMode, conversationHistory,
                   abortControllerRef, sess, nextSid, queue, orphaned, hasSynth,
                   isListening, idleHold, capture, playback>>

\* start-up, then what can happen once the application is rendered: the
\* mic button and the tabs exist only then, and every other step needs them
NextPersist ==
    \/ InitializedEffects
    \/ ProfileLoadedRender
    \/ persist.phase = "ready" /\ ~isListening /\ ToggleRecording
    \/ \E text \in UserTexts : nextSid = 0 /\ SpeechTurnEnd(text)
    \/ \E s \in Sessions, e \in ClassifyEmotions : ClassifyOk(s, e)
    \/ \E s \in Sessions : StreamReqOk(s)
    \/ \E s \in Sessions, frag \in Fragments : Chunk(s, frag)
    \/ \E s \in Sessions : StreamEnd(s)
    \/ \E s \in Sessions, r \in MergeReturns : ExtractOk(s, r)
    \/ UtteranceEnd
    \/ \E mode \in InputModes : persist.phase = "ready" /\ TabChange(mode)
    \/ ClearProfile

SpecPersist == InitPersist /\ [][NextPersist]_vars

----------------------------------------------------------------------------
(* Claims *)

\* a step of session s: its processUserRequest call runs on
StepOf(s) == sess'[s].pc # sess[s].pc \/ sess'[s].chunks # sess[s].chunks

\* the agent Turns of session s in the Transcript
AgentTurns(s) ==
    {i \in 1..Len(conversationHistory) :
        conversationHistory[i].sender = "ai" /\ conversationHistory[i].sid = s}

\* C1: once a second turn has started, no step of the first session writes
\* the Transcript (other than removing its empty placeholder), enqueues
\* speech or changes the UserProfile.
C1_SupersededHasNoEffect ==
    [][\A s \in Sessions :
          (s < nextSid /\ StepOf(s)) =>
             /\ \/ conversationHistory' = conversationHistory
                \/ conversationHistory' =
                     CleanupFilter(conversationHistory, sess[s].analysis)
             /\ sess'[s].spoken = sess[s].spoken
             /\ userProfile' = userProfile]_vars

\* C2: every turn that is in flight with an un-cancelled token is the session
\* abortControllerRef holds, so at most one such turn exists.
C2_OneActiveSession ==
    \A s \in Sessions :
        (InFlight(s) /\ ~sess[s].aborted) => abortControllerRef = s

C2_Witness ==
    \E s, u \in Sessions :
        /\ InFlight(s) /\ sess[s].aborted
        /\ InFlight(u) /\ ~sess[u].aborted
        /\ abortControllerRef = u

\* C3: the interrupt, in its own step, cancels the token of the session
\* abortControllerRef holds, empties the playback queue and sets AppState
\* IDLE and the working emotion NEUTRAL, while no model call settles (every
\* session stays where it is suspended).
C3_InterruptIsSynchronous ==
    [][Interrupt =>
         /\ abortControllerRef # 0 => sess'[abortControllerRef].aborted
         /\ queue' = <<>>
         /\ appState' = "IDLE"
         /\ emotion' = "NEUTRAL"
         /\ \A s \in Sessions : sess'[s].pc = sess[s].pc]_vars

C3_Witness ==
    /\ idleHold
    /\ appState = "IDLE" /\ emotion = "NEUTRAL" /\ queue = <<>>
    /\ \E s \in Sessions :
          /\ sess[s].intrSpeaking /\ sess[s].aborted
          /\ sess[s].pc = "flush" /\ s \in orphaned

\* C4: when classify resolves for a session that is already cancelled, no
\* agent Turn is appended, the working emotion is unchanged and no
\* streamResponse request is issued.
C4_CancelledClassifyIgnored ==
    [][\A s \in Sessions :
          (sess[s].pc = "classify" /\ sess[s].aborted
             /\ sess'[s].analysis # sess[s].analysis) =>
             /\ conversationHistory' = conversationHistory
             /\ emotion' = emotion
             /\ sess'[s].pc # "streamReq"]_vars

\* C5: from an interrupt to the next user-raised event AppState is neither
\* THINKING nor SPEAKING and the working emotion is NEUTRAL.
C5_IdleAfterInterrupt ==
    idleHold => (appState \notin {"THINKING", "SPEAKING"} /\ emotion = "NEUTRAL")

\* C6 as stated: a turn that was in flight when the interrupt was invoked with
\* AppState SPEAKING has no extractFacts call.
C6_NoExtractForInterruptedTurn ==
    \A s \in Sessions : sess[s].intrSpeaking => ~sess[s].extractCalled

\* C6 amended: after the interrupt was invoked with AppState SPEAKING, no
\* extractFacts call is issued for a turn that was in flight then.
C6_NoExtractAfterInterrupt ==
    [][\A s \in Sessions :
          sess[s].intrSpeaking => sess'[s].extractCalled = sess[s].extractCalled]_vars

C6_Witness ==
    \E s \in Sessions :
        /\ sess[s].intrSpeaking /\ sess[s].pc = "done"
        /\ sess[s].fullResponse # <<>> /\ ~sess[s].extractCalled

\* C7: when extractFacts settles for a session that is already cancelled, the
\* UserProfile does not change.
C7_CancelledExtractNotMerged ==
    [][\A s \in Sessions :
          (sess[s].pc = "extract" /\ sess[s].aborted /\ sess'[s].pc = "done") =>
             userProfile' = userProfile]_vars

\* C8: for an un-cancelled voice-mode turn whose stream has ended, the pieces
\* enqueued to Speech Playback, concatenated in enqueue order (the final
\* flush last), are the full streamed response.  The texts are compared with
\* their whitespace removed, which the claim's exact equality implies.
NonWhitespace(text) == SelectSeq(text, LAMBDA c : c \notin Whitespace)

C8_SegmentationLossless ==
    \A s \in Sessions :
        (sess[s].pc \in {"flush", "extract", "done"} /\ ~sess[s].aborted
           /\ sess[s].mode = "VOICE") =>
            NonWhitespace(Concat(sess[s].spoken)) = NonWhitespace(sess[s].fullResponse)

\* C9: once a session that was cancelled before any fragment was applied has
\* returned, the Transcript holds no agent Turn of it with empty text.
C9_NoEmptyAgentTurn ==
    \A s \in Sessions :
        (sess[s].pc = "done" /\ sess[s].aborted /\ sess[s].fullResponse = <<>>) =>
            \A i \in AgentTurns(s) : conversationHistory[i].content # <<>>

\* C10: a session cancelled after at least one fragment was applied keeps its
\* agent Turn in the Transcript, with exactly the fragments applied as text.
C10_PartialTextKept ==
    \A s \in Sessions :
        (sess[s].aborted /\ sess[s].fullResponse # <<>>) =>
            \E i \in AgentTurns(s) :
                conversationHistory[i].content = sess[s].fullResponse

\* C11: when a session's extraction returns a non-empty mapping F, the profile
\* after the merge has F's value at every key of F and the old value at every
\* other key; merging F again changes nothing; and whatever is merged next
\* wins at each of its keys.
C11_MergeLastWriteWins ==
    [][\A s \in Sessions :
          LET F == sess'[s].extracted.val IN
          (sess[s].pc = "extract" /\ sess'[s].pc = "done"
             /\ ~sess'[s].extracted.none /\ DOMAIN F # {}) =>
             /\ DOMAIN userProfile' = DOMAIN userProfile \cup DOMAIN F
             /\ \A k \in DOMAIN F : userProfile'[k] = F[k]
             /\ \A k \in DOMAIN userProfile \ DOMAIN F : userProfile'[k] = userProfile[k]
             /\ Merge(userProfile', F) = userProfile'
             /\ \A G \in MergeFactMaps :
                   \A k \in DOMAIN G : Merge(userProfile', G)[k] = G[k]]_vars

C11_Witness ==
    /\ sess[1].pc = "done" /\ sess[2].pc = "done"
    /\ ~sess[1].extracted.none /\ ~sess[2].extracted.none
    /\ "name" \in DOMAIN sess[1].extracted.val
    /\ sess[1].extracted.val["name"] = "Ann"
    /\ "name" \in DOMAIN sess[2].extracted.val
    /\ sess[2].extracted.val["name"] = "Anne"
    /\ "city" \in DOMAIN userProfile \ DOMAIN sess[2].extracted.val
    /\ userProfile["name"] = "Anne"

\* C12: what extractUserDetails returns for the sentinel response '{}' is
\* none, and the step in which a session's extraction settles with that
\* return leaves the UserProfile unchanged and completes the turn (AppState
\* IDLE when the session is not cancelled).
C12_SentinelLeavesProfile ==
    [][\A s \in Sessions :
          (sess[s].pc = "extract" /\ sess'[s].pc # "extract"
             /\ sess'[s].extracted = ExtractUserDetails(SentinelResponse)) =>
             /\ sess'[s].extracted.none
             /\ userProfile' = userProfile
             /\ sess'[s].pc = "done"
             /\ ~sess[s].aborted => appState' = "IDLE"]_vars

C12_Witness ==
    \E s \in Sessions :
        /\ sess[s].pc = "done" /\ sess[s].extractCalled /\ ~sess[s].aborted
        /\ sess[s].extracted = ExtractUserDetails(SentinelResponse)
        /\ sess[s].extracted.none
        /\ appState = "IDLE"
        /\ DOMAIN userProfile = MergeKeys

\* the turn of the scenario: session s classified SAD whose stream has
\* delivered the first n of the three fragments, in order
InScenario(s, n) ==
    /\ sess[s].analysis = "SAD" /\ sess[s].mode = "VOICE"
    /\ sess[s].chunks = n
    /\ sess[s].fullResponse =
         SubSeq(FragSorry \o FragLoss \o FragHard, 1,
                IF n = 1 THEN Len(FragSorry)
                ELSE IF n = 2 THEN Len(FragSorry) + Len(FragLoss)
                ELSE Len(FragSorry) + Len(FragLoss) + Len(FragHard))

\* the Transcript and the emotion log of the scenario once the stream ended
ScenarioTranscript(s) ==
    /\ Len(conversationHistory) = 2
    /\ conversationHistory[1].sender = "user"
    /\ conversationHistory[1].content \in UserTexts
    /\ conversationHistory[2].sender = "ai"
    /\ conversationHistory[2].detectedEmotion = "SAD"
    /\ conversationHistory[2].content = FragSorry \o FragLoss \o FragHard
    /\ emotionLogEntries =
         <<[userMessage |-> conversationHistory[1].content, emotion |-> "SAD"]>>

\* C13 as stated: in the scenario, while the stream has not ended, Speech
\* Playback has received nothing after the first fragment, one sentence
\* group after the second and still only that group after the third; it has
\* the remainder once the stream has ended; the Transcript is the user Turn and the agent
\* Turn tagged SAD with the whole text, and the emotion log has the one entry.
C13_ScenarioAsStated ==
    \A s \in Sessions :
        /\ (InScenario(s, 1) /\ sess[s].pc = "streaming") => sess[s].spoken = <<>>
        /\ (InScenario(s, 2) /\ sess[s].pc = "streaming") =>
              sess[s].spoken = <<FragSorry \o FragLoss>>
        /\ (InScenario(s, 3) /\ sess[s].pc = "streaming") =>
              sess[s].spoken = <<FragSorry \o FragLoss>>
        /\ (InScenario(s, 3) /\ sess[s].pc \in {"flush", "extract", "done"}) =>
              /\ Len(sess[s].spoken) = 2
              /\ sess[s].spoken[1] = FragSorry \o FragLoss
              /\ Trim(sess[s].spoken[2]) = Trim(FragHard)
              /\ ScenarioTranscript(s)

\* C13 amended: the remainder is enqueued when the third fragment arrives
\* (it ends with a sentence terminator), and nothing is enqueued at stream
\* end; the rest is as stated.
C13_ScenarioRemainderWithThirdFragment ==
    \A s \in Sessions :
        /\ (InScenario(s, 1) /\ sess[s].pc = "streaming") => sess[s].spoken = <<>>
        /\ (InScenario(s, 2) /\ sess[s].pc = "streaming") =>
              sess[s].spoken = <<FragSorry \o FragLoss>>
        /\ InScenario(s, 3) =>
              /\ sess[s].spoken = <<FragSorry \o FragLoss, FragHard>>
              /\ sess[s].textBuffer = <<>>
              /\ sess[s].pc # "flush"
        /\ (InScenario(s, 3) /\ sess[s].pc \in {"extract", "done"}) =>
              ScenarioTranscript(s)

C13_Witness ==
    \E s \in Sessions :
        /\ InScenario(s, 3) /\ sess[s].pc = "done" /\ sess[s].extractCalled
        /\ sess[s].spoken = <<FragSorry \o FragLoss, FragHard>>
        /\ ScenarioTranscript(s)
        /\ appState = "IDLE"

\* C14: when classify fails in an un-cancelled session, the step appends an
\* agent Turn carrying the failure's user-facing message, which is then the
\* last Turn of the Transcript.
C14_ClassifyFailureCreatesTurn ==
    [][\A s \in Sessions, err \in CallFailures :
          (~sess[s].aborted /\ ClassifyFail(s, err)) =>
             /\ Len(conversationHistory') = Len(conversationHistory) + 1
             /\ Last(conversationHistory').sender = "ai"
             /\ Last(conversationHistory').content = HandleApiError(err)]_vars

\* C15: when classify or the stream request fails in an un-cancelled session,
\* the turn's processing returns with AppState ERROR.
C15_FailureEndsInError ==
    [][\A s \in Sessions, err \in CallFailures :
          (~sess[s].aborted /\ (ClassifyFail(s, err) \/ StreamReqFail(s, err))) =>
             (sess'[s].pc = "done" /\ appState' = "ERROR")]_vars

\* C16: when extractFacts fails in an un-cancelled session, the step has the
\* outcome of a return of none: AppState does not become ERROR, the
\* Transcript (so the agent Turn's text) and the UserProfile are unchanged.
C16_ExtractFailureIsNoFacts ==
    [][\A s \in Sessions, err \in CallFailures :
          (~sess[s].aborted /\ ExtractFail(s, err)) =>
             /\ appState' # "ERROR"
             /\ conversationHistory' = conversationHistory
             /\ userProfile' = userProfile]_vars

\* a model call of session s fails in this step
CallFails(s) ==
    \/ \E err \in CallFailures :
          ClassifyFail(s, err) \/ StreamReqFail(s, err) \/ ExtractFail(s, err)
    \/ \E raw \in RawFailures : StreamFail(s, raw)

\* C17: a model-call failure in a session that is already cancelled writes
\* nothing into the Transcript and does not set AppState to ERROR.
C17_CancelledFailureIsSilent ==
    [][\A s \in Sessions :
          (sess[s].aborted /\ CallFails(s)) =>
             /\ conversationHistory' = conversationHistory
             /\ appState' # "ERROR"]_vars

\* C18: every text the finalized-turn callback has been called with has a
\* non-whitespace character.
C18_NoWhitespaceTurn ==
    \A i \in 1..Len(capture.emitted) : Trim(capture.emitted[i]) # <<>>

C18_Witness ==
    /\ capture.emitted # <<>>
    /\ capture.skipped

\* C19: a stopListening while a recognition is held and the pending text has
\* a non-whitespace character calls the finalized-turn callback exactly once,
\* with the trimmed pending text, empties the accumulator and leaves no pause
\* timer pending.
C19_StopFlushesOnce ==
    [][((MicStop \/ \E mode \in InputModes : TabStop(mode))
          /\ capture.recognitionRef /\ Trim(capture.turnTranscriptRef) # <<>>) =>
             /\ capture'.emitted =
                  Append(capture.emitted, Trim(capture.turnTranscriptRef))
             /\ capture'.turnTranscriptRef = <<>>
             /\ ~capture'.silenceTimer]_vars

C19_Witness ==
    /\ capture.flushedByStop
    /\ capture.engine = "stopping"
    /\ capture.emitted # <<>>
    /\ capture.turnTranscriptRef = <<>>
    /\ ~capture.silenceTimer

\* C20: without speech synthesis, a voice turn whose calls all return
\* eventually has called extractFacts and returned with AppState IDLE.
C20_TurnCompletesWithoutPlayback ==
    \A s \in Sessions :
        (sess[s].pc = "classify" /\ sess[s].mode = "VOICE") ~>
            (sess[s].pc = "done" /\ sess[s].extractCalled /\ appState = "IDLE")

\* C21: a session that awaits the completion callback of its final flush
\* eventually gets it (it does not stay at the final flush for ever).
C21_FlushNeverBlocked ==
    \A s \in Sessions : (sess[s].pc = "flush") ~> (sess[s].pc # "flush")

\* C22: the "currently speaking" flag is true in every state in which the
\* playback queue is not empty.
C22_SpeakingWhileQueued ==
    queue # <<>> => playback.isSpeaking

\* C23: every step that changes AppState to LISTENING starts in AppState IDLE.
C23_ListeningOnlyFromIdle ==
    [][(appState' = "LISTENING" /\ appState # "LISTENING") => appState = "IDLE"]_vars

\* C24: every step in which a session enqueues an utterance to Speech
\* Playback is taken while the active input mode is voice.
C24_SpeaksOnlyInVoiceMode ==
    [][\A s \in Sessions :
          sess'[s].spoken # sess[s].spoken => inputMode = "VOICE"]_vars

\* C25: the stored profile loses a key (or the item disappears) only in a
\* step of clearProfile.
C25_StoredProfileKeepsKeys ==
    [][(StoredProfile.has
          /\ ~(StoredProfile'.has
                /\ DOMAIN StoredProfile.val \subseteq DOMAIN StoredProfile'.val)) =>
             ClearProfile]_vars

\* C26: the voice of the utterance speak created last is the first offered
\* voice whose id is the requested one, if there is one; else a non-local
\* voice of exactly the hinted language, if one is offered; else the first
\* offered voice of that language; else none.
C26_VoiceResolutionOrder ==
    playback.lang # "none" =>
        LET vs == playback.voices
            byId == {i \in 1..Len(vs) : vs[i].voiceURI = playback.voiceURI}
            ofLang == {i \in 1..Len(vs) : vs[i].lang = playback.lang}
            network == {i \in ofLang : ~vs[i].localService}
        IN  IF playback.voiceURI # "none" /\ byId # {}
            THEN \E i \in byId : playback.voice = vs[i] /\ \A j \in byId : i <= j
            ELSE IF network # {}
            THEN \E i \in network : playback.voice = vs[i]
            ELSE IF ofLang # {}
            THEN \E i \in ofLang : playback.voice = vs[i] /\ \A j \in ofLang : i <= j
            ELSE playback.voice = NoVoice

C26_Witness ==
    /\ playback.lang = "en-US" /\ playback.voiceURI = "u9"
    /\ Len(playback.voices) = 3
    /\ playback.voices[1].lang = "en-US" /\ playback.voices[1].localService
    /\ playback.voices[2].lang = "fr-FR"
    /\ playback.voices[3].lang = "en-US" /\ ~playback.voices[3].localService
    /\ playback.voice = playback.voices[3]
    /\ queue # <<>>

\* C27: the emotion log has, in Transcript order, one entry for each agent Turn
\* that carries an emotion and has a user Turn before it, and that entry pairs
\* the emotion with the text of the nearest user Turn before the agent Turn.
LoggedTurns(h) ==
    {i \in 1..Len(h) : /\ h[i].sender = "ai"
                        /\ h[i].detectedEmotion # NoEmotion
                        /\ \E j \in 1..(i - 1) : h[j].sender = "user"}

C27_EmotionLogOfTranscript ==
    LET h == conversationHistory
        log == emotionLogEntries
    IN  /\ Len(log) = Cardinality(LoggedTurns(h))
        /\ \A i \in LoggedTurns(h) :
              \E j \in 1..(i - 1) :
                 /\ h[j].sender = "user"
                 /\ \A m \in (j + 1)..(i - 1) : h[m].sender # "user"
                 /\ log[Cardinality({x \in LoggedTurns(h) : x <= i})] =
                       [userMessage |-> h[j].content,
                        emotion |-> h[i].detectedEmotion]

C27_Witness ==
    /\ Len(emotionLogEntries) = 2
    /\ emotionLogEntries[1].userMessage # emotionLogEntries[2].userMessage
    /\ emotionLogEntries[1].emotion # emotionLogEntries[2].emotion

\* C28: a failure of classify, of the response stream or of extractFacts shows
\* the user one of three messages: the rate-limit message when the error text
\* contains '429' or 'RESOURCE_EXHAUSTED', the invalid-key message when it
\* contains 'API key not valid', and the generic message in every other case.
C28_Category(errorText) ==
    IF errorText \in {"429", "RESOURCE_EXHAUSTED"} THEN MsgRateLimited
    ELSE IF errorText = "API key not valid" THEN MsgInvalidKey
    ELSE MsgGeneric

C28_FailureShowsCategoryMessage ==
    [][\A s \in Sessions :
          /\ \A err \in CallFailures :
                ((ClassifyFail(s, err) \/ StreamReqFail(s, err) \/ ExtractFail(s, err))
                   /\ conversationHistory' # conversationHistory) =>
                      Last(conversationHistory').content = C28_Category(err)
          /\ \A raw \in RawFailures :
                (StreamFail(s, raw) /\ conversationHistory' # conversationHistory) =>
                      \* no raw text of this model contains one of the markers
                      Last(conversationHistory').content = MsgGeneric]_vars

LastTerminator(buf) ==
    CHOOSE k \in 1..Len(buf) :
        buf[k] \in Terminators /\ \A m \in (k + 1)..Len(buf) : buf[m] \notin Terminators

C30_FlushesLongestSentencePrefix ==
    [][\A s \in Sessions :
          (/\ sess[s].pc = "streaming" /\ ~sess[s].aborted /\ sess[s].mode = "VOICE"
           /\ sess'[s].chunks = sess[s].chunks + 1) =>
             LET frag == SubSeq(sess'[s].fullResponse, Len(sess[s].fullResponse) + 1,
                                Len(sess'[s].fullResponse))
                 buf == sess[s].textBuffer \o frag
             IN  HasTerminator(buf) =>
                    /\ sess'[s].spoken =
                          Append(sess[s].spoken, SubSeq(buf, 1, LastTerminator(buf)))
                    /\ sess'[s].textBuffer =
                          SubSeq(buf, LastTerminator(buf) + 1, Len(buf))
                    /\ ~HasTerminator(sess'[s].textBuffer)]_vars

\* C31: after a step in which an un-cancelled session applies a fragment, the
\* Transcript holds an agent Turn of that session whose text is all the
\* fragments the session has received, in order.
C31_LiveTextIsAccumulated ==
    [][\A s \in Sessions :
          (/\ sess[s].pc = "streaming" /\ ~sess[s].aborted
           /\ sess'[s].chunks = sess[s].chunks + 1) =>
             \E i \in 1..Len(conversationHistory') :
                /\ conversationHistory'[i].sender = "ai"
                /\ conversationHistory'[i].sid = s
                /\ conversationHistory'[i].content = sess'[s].fullResponse]_vars

\* C32: in an un-cancelled turn, a session that has enqueued the trailing text
\* goes on to extractFacts only in the step in which that utterance's
\* completion callback fires; extractFacts is called either in such a step or
\* at the end of a stream that leaves nothing to speak; and a pass of the loop
\* that enqueues a sentence leaves the session consuming the stream, whatever
\* the queue holds.
C32_OnlyFinalFlushAwaited ==
    [][\A s \in Sessions :
          ~sess[s].aborted =>
             /\ (sess[s].pc = "flush" /\ sess'[s].pc # "flush") =>
                   \/ queue # <<>> /\ Head(queue).cb = s /\ queue' = Tail(queue)
                   \/ s \in orphaned /\ s \notin orphaned'
             /\ (sess'[s].extractCalled /\ ~sess[s].extractCalled) =>
                   \/ sess[s].pc = "flush"
                   \/ /\ sess[s].pc = "streaming"
                      /\ Trim(sess[s].textBuffer) = <<>> \/ sess[s].mode # "VOICE"
             /\ (sess[s].pc = "streaming" /\ sess'[s].chunks = sess[s].chunks + 1) =>
                   sess'[s].pc = "streaming"]_vars

\* the third fragment has been consumed while the sentence enqueued with the
\* second is still in the queue, and the trailing text of an earlier-ending
\* stream is awaited
C32_Witness ==
    \E s \in Sessions :
        /\ ~sess[s].aborted /\ sess[s].pc = "flush" /\ sess[s].chunks = 3
        /\ Len(queue) = 2
        /\ queue[1] = [text |-> FragSorry \o FragLoss, cb |-> 0]
        /\ queue[2].cb = s

\* C33: a step changes the text of a Turn only if it is the agent Turn of the
\* un-cancelled session taking the step and no user Turn follows it in the
\* Transcript, and no step changes the emotion of a Turn.  (A Turn is known by
\* its sender and session; removing a Turn is not changing it.)
C33_TurnsImmutable ==
    [][\A i \in 1..Len(conversationHistory), j \in 1..Len(conversationHistory') :
          LET old == conversationHistory[i]
              new == conversationHistory'[j]
          IN  (old.sender = new.sender /\ old.sid = new.sid /\ old # new) =>
                 /\ new.detectedEmotion = old.detectedEmotion
                 /\ old.sender = "ai"
                 /\ StepOf(old.sid) /\ ~sess[old.sid].aborted
                 /\ \A k \in (i + 1)..Len(conversationHistory) :
                       conversationHistory[k].sender # "user"]_vars

\* C34: whenever a session is in flight with an un-cancelled token, AppState
\* is THINKING or SPEAKING.
C34_ActiveSessionIsProcessing ==
    \A s \in Sessions :
        (InFlight(s) /\ ~sess[s].aborted) => appState \in {"THINKING", "SPEAKING"}

\* C35: AppState is LISTENING only while Speech Capture is listening: a step
\* in which Speech Capture stops listening (a capture error, or the end of
\* recognition, on its own or after stop) does not leave AppState LISTENING.
C35_ListeningOnlyWhileCapturing ==
    [][(isListening /\ ~isListening') => appState' # "LISTENING"]_vars

\* C36: final text held in the pending turn buffer is never dropped: a step
\* that empties a buffer holding non-whitespace text delivers that text,
\* trimmed, as one finalized turn.
C36_PendingTextIsDelivered ==
    [][(Trim(capture.turnTranscriptRef) # <<>> /\ capture'.turnTranscriptRef = <<>>) =>
          capture'.emitted = Append(capture.emitted, Trim(capture.turnTranscriptRef))]_vars

\* C37: once Speech Capture has reported an error, and until recognition is
\* started again, no step emits a finalized turn.  (The engine is "errored"
\* from the error event until its end event; a start needs the engine "off".)
C37_NoTurnAfterError ==
    [][capture.engine = "errored" => capture'.emitted = capture.emitted]_vars

\* C38: every emotion-log entry pairs the emotion classify returned for a user
\* message with that same message: the user Turn nearest before an agent Turn
\* that carries an emotion is the user Turn of the agent Turn's session.
C38_LogPairsOwnMessage ==
    \A i \in LoggedTurns(conversationHistory) :
        \A j \in 1..(i - 1) :
            (/\ conversationHistory[j].sender = "user"
             /\ \A m \in (j + 1)..(i - 1) : conversationHistory[m].sender # "user") =>
                conversationHistory[j].sid = conversationHistory[i].sid

\* C39: an agent Turn leaves the Transcript only in a step of the session that
\* created it: the clean-up of a cancelled session removes no agent Turn of
\* another session.
C39_CleanupRemovesOwnTurnOnly ==
    [][\A i \in 1..Len(conversationHistory) :
          LET m == conversationHistory[i] IN
          (/\ m.sender = "ai"
           /\ \A j \in 1..Len(conversationHistory') :
                 conversationHistory'[j].sender # "ai" \/ conversationHistory'[j].sid # m.sid) =>
              StepOf(m.sid)]_vars

\* C40: every prefix of the Transcript holds at least as many user Turns as
\* agent Turns; a session has at most one agent Turn, and it comes after the
\* session's user Turn; the user Turns are in the order in which their texts
\* were accepted; and no step removes or alters a user Turn.
UserTurns(h) == SelectSeq(h, LAMBDA m : m.sender = "user")

C40_PrefixesAndOrder ==
    LET h == conversationHistory IN
    /\ \A n \in 0..Len(h) :
          Cardinality({i \in 1..n : h[i].sender = "ai"}) <=
             Cardinality({i \in 1..n : h[i].sender = "user"})
    /\ \A i, j \in 1..Len(h) :
          /\ (h[i].sender = "ai" /\ h[j].sender = "ai" /\ h[i].sid = h[j].sid) => i = j
          /\ (h[i].sender = "ai" /\ h[j].sender = "user" /\ h[i].sid = h[j].sid) => j < i
          /\ (h[i].sender = "user" /\ h[j].sender = "user" /\ i < j) => h[i].sid < h[j].sid

C40_UserTurnsKept ==
    /\ Len(UserTurns(conversationHistory')) >= Len(UserTurns(conversationHistory))
    /\ SubSeq(UserTurns(conversationHistory'), 1, Len(UserTurns(conversationHistory)))
          = UserTurns(conversationHistory)

C40_UserTurnsPrecedeAgentTurns ==
    []C40_PrefixesAndOrder /\ [][C40_UserTurnsKept]_vars

\* two overlapping sessions whose agent Turns are in the opposite order of
\* their user Turns, the older one then removed by its clean-up
C40_Witness ==
    /\ Len(conversationHistory) = 3
    /\ conversationHistory[1].sender = "user" /\ conversationHistory[1].sid = 1
    /\ conversationHistory[2].sender = "user" /\ conversationHistory[2].sid = 2
    /\ conversationHistory[3].sender = "ai" /\ conversationHistory[3].sid = 2
    /\ sess[1].pc = "done" /\ sess[1].aborted /\ sess[1].analysis # "none"
    /\ sess[1].analysis # sess[2].analysis

====
